---- MODULE Spec2Model ----
(***************************************************************************)
(* rust_p2p_chat (src/rust_p2p_chat/src/main.rs): one listener process and *)
(* one initiator process.  Each runs its setup steps (run_server /          *)
(* run_client), then the shared message pump handle_connection, then main  *)
(* returns.  The two pumps are joined by one frame queue per direction     *)
(* (the TLS/TCP byte stream): a frame is on the queue from the moment      *)
(* send is called, and the send completes only when the transport buffers  *)
(* hold the whole frame, i.e. at most Cap frames are still unread.  Cap    *)
(* counts frames, not bytes: Cap = 0 is the case of frames larger than     *)
(* the socket buffers (next_line puts no limit on the length of a line).   *)
(***************************************************************************)
EXTENDS Integers, Sequences, FiniteSets, TLC

\* ------------------------------------------------------------------ bounds
MaxInputs == 2     \* local lines and remote-originated frames fed to the session
Cap == 0           \* frames the transport buffers per direction beyond the one
                   \* being written (0: a send ends when the peer has read it)

\* ------------------------------------------------------------- vocabulary
Procs == {"L", "I"}                 \* Commands::Listen, Commands::Connect
Peer(p) == IF p = "L" THEN "I" ELSE "L"

Whitespace == {" ", "\t"}
\* the local lines the model feeds to stdin (line terminator already removed
\* by next_line): empty, whitespace only, plain, padded on both sides
Lines == { <<>>, <<" ">>, <<"a">>, <<" ", "b", " ">> }

Payloads == { <<"p">>, <<"q">> }
NoCloseFrame == <<>>
SomeCloseFrame == <<"1000", "bye">>

Ping(data) == [kind |-> "Ping", data |-> data]
Binary(data) == [kind |-> "Binary", data |-> data]
Close(cf) == [kind |-> "Close", data |-> cf]

\* frames only a remote protocol stack originates (the pump itself sends
\* Text and Pong only)
RemoteFrames ==
    {Ping(d) : d \in Payloads} \cup {Close(NoCloseFrame), Close(SomeCloseFrame)}
        \cup {Binary(<<"p">>)}

\* ------------------------------------------------------ pure functions
\* str::trim_start / str::trim_end / str::trim on a sequence of characters
RECURSIVE TrimStart(_)
TrimStart(s) ==
    IF s = <<>> THEN <<>>
    ELSE IF Head(s) \in Whitespace THEN TrimStart(Tail(s)) ELSE s

RECURSIVE TrimEnd(_)
TrimEnd(s) ==
    IF s = <<>> THEN <<>>
    ELSE IF s[Len(s)] \in Whitespace THEN TrimEnd(SubSeq(s, 1, Len(s) - 1)) ELSE s

Trim(s) == TrimEnd(TrimStart(s))

\* a plausible slip: the line goes out as Message::Binary(line.into())
TextAsBinary(line) == [kind |-> "Binary", data |-> line]

\* a plausible slip: the trimmed line is what gets sent
TextTrimmed(line) == [kind |-> "Text", data |-> Trim(line)]

\* Message::Text(line)
Text(line) == [kind |-> "Text", data |-> line]

\* a plausible slip: is_empty() without trim()
IsBlankNoTrim(line) == line = <<>>

\* a plausible slip: only the first character is looked at
IsBlankLeadingSpace(line) == line = <<>> \/ Head(line) \in Whitespace

\* line.trim().is_empty()
IsBlank(line) == Trim(line) = <<>>

\* a plausible slip: the Pong carries a fresh empty payload
PongEmpty(data) == [kind |-> "Pong", data |-> <<>>]

\* Message::Pong(data)
Pong(data) == [kind |-> "Pong", data |-> data]

\* a plausible slip: Close falls into the catch-all arm
DispositionCloseIgnored(frame) ==
    CASE frame.kind = "Text" -> "display"
      [] frame.kind = "Ping" -> "pong"
      [] OTHER -> "ignore"

\* a plausible slip: a Binary message is printed like a Text one
DispositionBinaryShown(frame) ==
    CASE frame.kind \in {"Text", "Binary"} -> "display"
      [] frame.kind = "Close" -> "close"
      [] frame.kind = "Ping" -> "pong"
      [] OTHER -> "ignore"

\* a plausible slip: an unexpected message kind ends the session
DispositionBinaryCloses(frame) ==
    CASE frame.kind = "Text" -> "display"
      [] frame.kind \in {"Close", "Binary"} -> "close"
      [] frame.kind = "Ping" -> "pong"
      [] OTHER -> "ignore"

\* the match on the inbound message
Disposition(frame) ==
    CASE frame.kind = "Text" -> "display"
      [] frame.kind = "Close" -> "close"
      [] frame.kind = "Ping" -> "pong"
      [] OTHER -> "ignore"

\* println!("\u{76f8}\u{624b}: {}", text): the payload under the remote tag
Display(text) == [tag |-> "remote", text |-> text]

\* what ws_receiver.next() returns besides a message: Some(Err(e)), None
RecvErr == [kind |-> "Err", data |-> <<>>]
RecvEnd == [kind |-> "End", data |-> <<>>]

\* a plausible slip: a failed Pong send is logged and the loop goes on
OnSendErrPongIgnored(kind) == IF kind = "Pong" THEN "continue" ELSE "break"

\* `if let Err(e) = ws_sender.send(..).await { ..; break; }`, for both sends
OnSendErr(kind) == "break"

\* ------------------------------------------------------------ setup steps
\* a plausible slip: accept is called again and the later peer is served
ListenerStepsAcceptTwice ==
    <<"provider", "localip", "globalip", "cert", "tlscfg", "bind", "accept",
      "accept", "tls", "ws">>

\* main then run_server, in program order (each is one fallible call)
ListenerSteps ==
    <<"provider", "localip", "globalip", "cert", "tlscfg", "bind", "accept",
      "tls", "ws">>

\* run_client, in program order
InitiatorSteps == <<"provider", "uri", "host", "connect", "servername", "tls", "ws">>
Steps(p) == IF p = "L" THEN ListenerSteps ELSE InitiatorSteps

\* a plausible slip: a handshake error is swallowed instead of propagated
FatalButTls(step) == step \notin {"localip", "globalip", "tls"}

\* a plausible slip: `get_global_ip().await?`
FatalWithDiscovery(step) == TRUE

\* the services get_global_ip tries, in order, and what each try can give
Services == <<"api.ipify.org", "httpbin.org/ip", "icanhazip.com">>
ServiceOutcomes == [1..Len(Services) -> BOOLEAN]

\* get_global_ip: the first service that answers gives the result; Err only
\* if every one failed
RECURSIVE FirstOk(_, _)
FirstOk(o, i) ==
    IF i > Len(Services) THEN FALSE
    ELSE IF o[i] THEN TRUE ELSE FirstOk(o, i + 1)
GetGlobalIp(o) == FirstOk(o, 1)

\* what a setup call can return (TRUE is Ok)
GlobalIpResults == {GetGlobalIp(o) : o \in ServiceOutcomes}
Outcomes(step) == IF step = "globalip" THEN GlobalIpResults ELSE BOOLEAN

\* every setup step but the two address look-ups is followed by `?`: its
\* error returns from run_* / main.  get_local_ip is under `if let Ok`,
\* get_global_ip under a match whose Err arm only prints.
Fatal(step) == step \notin {"localip", "globalip"}

\* a plausible slip: every run ends with status 0
ExitCodeAlwaysZero(ok) == 0

\* main: Ok(()) -> 0; Err from run_* -> std::process::exit(1); Err from main -> 1
ExitCode(ok) == IF ok THEN 0 ELSE 1

Running == <<>>          \* exitCode of a process that has not exited

\* ------------------------------------- run_client: the target and the verifier
\* an Option<u16>: None, Some(n)
None == <<>>
Some(n) == <<n>>

\* target URIs scheme://host[:port] as the user writes them
Schemes == {"ws", "wss", "https"}
Hosts == {"localhost", "192.0.2.7"}
WrittenPorts == {None, Some(80), Some(443), Some(8080), Some(9000)}
Uris == [scheme : Schemes, host : Hosts, port : WrittenPorts]

\* the port the url crate knows for a scheme (ws, http: 80; wss, https: 443)
KnownDefaultPort(scheme) ==
    CASE scheme \in {"ws", "http"} -> Some(80)
      [] scheme \in {"wss", "https"} -> Some(443)
      [] OTHER -> None

\* Url::parse(uri)?.port(): the parser keeps no port that is the scheme's own
\* default, so port() is None for an omitted port and for a written default
UrlPort(uri) == IF uri.port = KnownDefaultPort(uri.scheme) THEN None ELSE uri.port

\* the literal in url.port().unwrap_or(8080)
FallbackPort == 8080
UnwrapOr(opt, default) == IF opt = None THEN default ELSE opt[1]

\* format!("{}:{}", host, port), the address handed to TcpStream::connect
DialAddr(uri) == <<uri.host, UnwrapOr(UrlPort(uri), FallbackPort)>>

\* what a server can present: a certificate by validity at `now` and by the
\* name it is issued to, and the handshake signature with its scheme
SupportedVerifySchemes ==
    {"RSA_PKCS1_SHA1", "ECDSA_SHA1_Legacy", "RSA_PKCS1_SHA256",
     "ECDSA_NISTP256_SHA256", "RSA_PKCS1_SHA384", "ECDSA_NISTP384_SHA384",
     "RSA_PKCS1_SHA512", "ECDSA_NISTP521_SHA512", "RSA_PSS_SHA256",
     "RSA_PSS_SHA384", "RSA_PSS_SHA512", "ED25519", "ED448"}
Certs == [validity : {"valid", "expired", "not_yet_valid"},
          subject : {"localhost", "elsewhere.example"}]
Signatures == [scheme : SupportedVerifySchemes, genuine : BOOLEAN]
TlsVersions == {"1.2", "1.3"}

\* a plausible slip: the verifier still checks the validity period
VerifyServerCertChecksValidity(end_entity, intermediates, server_name, ocsp_response, now) ==
    IF end_entity.validity = "valid" THEN "Ok" ELSE "Err"

\* NoopServerCertVerifier: every argument is unused
VerifyServerCert(end_entity, intermediates, server_name, ocsp_response, now) == "Ok"
VerifyTls12Signature(message, cert, dss) == "Ok"
VerifyTls13Signature(message, cert, dss) == "Ok"

\* hs while run_client is not looked at on its own
NoHandshake == [stage |-> "none"]

VARIABLES
    pc,         \* per process: "setup", "select", "sending", "exited"
    trace,      \* per process: the setup steps attempted, <<step, ok>>
    exitCode,   \* per process: Running, or <<status>> once it has exited
    cause,      \* per process: the event that ended the pump ("" while none)
    listening,  \* the listener socket is bound and not yet dropped
    backlog,    \* connection attempts queued on the listener socket
    accepted,   \* connections the listener took with accept()
    alive,      \* per process: it holds an open end of the connection
    chan,       \* per process: frames in flight TOWARD it
    stdinEof,   \* per process: its standard input has been closed
    taken,      \* per process: lines next_line() has returned to the pump
    sent,       \* per process: frames handed to ws_sender.send, in order
    results,    \* per process: how each finished send ended, "ok" or "err"
    recvd,      \* per process: frames ws_receiver.next() returned to the pump
    shown,      \* per process: payloads printed with the remote tag
    inputs,      \* lines read and remote-originated frames emitted so far
    hs          \* run_client seen alone: its target, what the server presents, how far it got

pumpVars == <<pc, trace, exitCode, cause, listening, backlog, accepted, alive, chan,
              stdinEof, taken, sent, results, recvd, shown, inputs>>
vars == <<pumpVars, hs>>

Open(p) == pc[p] \in {"select", "sending"}
PumpEntered(p) == Open(p) \/ cause[p] # ""
Terminated(p) == cause[p] # ""

PumpInit ==
    /\ pc = [p \in Procs |-> "setup"]
    /\ trace = [p \in Procs |-> <<>>]
    /\ exitCode = [p \in Procs |-> Running]
    /\ cause = [p \in Procs |-> ""]
    /\ listening = FALSE
    /\ backlog = <<>>
    /\ accepted = <<>>
    /\ alive = [p \in Procs |-> FALSE]
    /\ chan = [p \in Procs |-> <<>>]
    /\ stdinEof = [p \in Procs |-> FALSE]
    /\ taken = [p \in Procs |-> <<>>]
    /\ sent = [p \in Procs |-> <<>>]
    /\ results = [p \in Procs |-> <<>>]
    /\ recvd = [p \in Procs |-> <<>>]
    /\ shown = [p \in Procs |-> <<>>]
    /\ inputs = 0

\* both processes started; run_client is not looked at on its own
Init == PumpInit /\ hs = NoHandshake

\* ------------------------------------------------------------------ setup
NextStep(p) == Steps(p)[Len(trace[p]) + 1]
Reached(q, s) ==
    \/ \E i \in 1..Len(trace[q]) : trace[q][i][1] = s
    \/ pc[q] = "setup" /\ NextStep(q) = s

\* an awaited step resumes only when its event is there
StepReady(p, s) ==
    CASE s = "accept" -> backlog # <<>>
      [] s \in {"tls", "ws"} -> alive[p] /\ (Reached(Peer(p), s) \/ ~alive[Peer(p)])
      [] OTHER -> TRUE

CanSucceed(p, s) ==
    CASE s = "connect" -> listening
      [] s \in {"tls", "ws"} -> alive[Peer(p)] /\ Reached(Peer(p), s)
      [] OTHER -> TRUE

\* One setup call of run_server / run_client (or of main before them) and the
\* `?` after it.
SetupStep(p) ==
    /\ pc[p] = "setup"
    /\ LET s == NextStep(p) IN
       /\ StepReady(p, s)
       /\ \E ok \in Outcomes(s) :
            /\ ok => CanSucceed(p, s)
            /\ trace' = [trace EXCEPT ![p] = Append(@, <<s, ok>>)]
            /\ IF ok
               THEN /\ pc' = [pc EXCEPT ![p] =
                                IF Len(trace[p]) + 1 = Len(Steps(p)) THEN "select" ELSE @]
                    /\ listening' = IF s = "bind" THEN TRUE ELSE listening
                    /\ backlog' = CASE s = "connect" -> Append(backlog, p)
                                    [] s = "accept" -> Tail(backlog)
                                    [] OTHER -> backlog
                    /\ accepted' = IF s = "accept" THEN Append(accepted, Head(backlog))
                                   ELSE accepted
                    /\ alive' = IF s \in {"connect", "accept"}
                                THEN [alive EXCEPT ![p] = TRUE] ELSE alive
                    /\ UNCHANGED <<exitCode, chan>>
               ELSE IF Fatal(s)
               THEN /\ pc' = [pc EXCEPT ![p] = "exited"]
                    /\ exitCode' = [exitCode EXCEPT ![p] = <<ExitCode(FALSE)>>]
                    /\ alive' = [alive EXCEPT ![p] = FALSE]
                    /\ chan' = [chan EXCEPT ![p] = <<>>]
                    /\ listening' = IF p = "L" THEN FALSE ELSE listening
                    /\ backlog' = IF p = "L" THEN <<>> ELSE backlog
                    /\ UNCHANGED accepted
               ELSE /\ pc' = [pc EXCEPT ![p] =
                                IF Len(trace[p]) + 1 = Len(Steps(p)) THEN "select" ELSE @]
                    /\ UNCHANGED <<exitCode, alive, chan, listening, backlog, accepted>>
    /\ UNCHANGED <<cause, stdinEof, taken, sent, results, recvd, shown, inputs>>
    /\ UNCHANGED hs

\* Another client connects to the listener's port after the first was accepted.
SecondConnect ==
    /\ listening
    /\ Len(accepted) >= 1
    /\ \A i \in 1..Len(backlog) : backlog[i] # "X"
    /\ \A i \in 1..Len(accepted) : accepted[i] # "X"
    /\ backlog' = Append(backlog, "X")
    /\ UNCHANGED <<pc, trace, exitCode, cause, listening, accepted, alive, chan,
                   stdinEof, taken, sent, results, recvd, shown, inputs>>
    /\ UNCHANGED hs

\* ------------------------------------------------------------ local input
\* the user closes standard input
StdinClose(p) ==
    /\ Open(p)
    /\ ~stdinEof[p]
    /\ stdinEof' = [stdinEof EXCEPT ![p] = TRUE]
    /\ UNCHANGED <<pc, trace, exitCode, cause, listening, backlog, accepted, alive,
                   chan, taken, sent, results, recvd, shown, inputs>>
    /\ UNCHANGED hs

\* The remote end's protocol stack emits a frame of its own toward p.  It
\* writes through the same sink as the remote pump, so not while that pump's
\* own frame is still being written.
RemoteFrame(p) ==
    /\ Open(p)
    /\ alive[Peer(p)]
    /\ pc[Peer(p)] # "sending"
    /\ inputs < MaxInputs
    /\ Len(chan[p]) <= Cap
    /\ \E f \in RemoteFrames : chan' = [chan EXCEPT ![p] = Append(@, f)]
    /\ inputs' = inputs + 1
    /\ UNCHANGED <<pc, trace, exitCode, cause, listening, backlog, accepted, alive,
                   stdinEof, taken, sent, results, recvd, shown>>
    /\ UNCHANGED hs

\* ------------------------------------------------------------------- pump
\* a plausible slip: the session is kept by something that outlives the pump
LeaveLeaky(p, why) ==
    /\ pc' = [pc EXCEPT ![p] = "exited"]
    /\ cause' = [cause EXCEPT ![p] = why]
    /\ exitCode' = [exitCode EXCEPT ![p] = <<ExitCode(TRUE)>>]
    /\ listening' = IF p = "L" THEN FALSE ELSE listening
    /\ backlog' = IF p = "L" THEN <<>> ELSE backlog
    /\ UNCHANGED <<alive, chan>>

\* a plausible slip: `break` leaves only the match and the loop goes on
LeaveKeepsLooping(p, why) ==
    /\ cause' = [cause EXCEPT ![p] = why]
    /\ chan' = [chan EXCEPT ![p] = IF @ = <<>> THEN @ ELSE Tail(@)]
    /\ UNCHANGED <<pc, alive, exitCode, listening, backlog>>

\* break out of the loop: handle_connection returns and drops both halves of
\* the session, run_* returns Ok(()), main returns and the process ends (no
\* await lies between the break and the end of main)
Leave(p, why) ==
    /\ pc' = [pc EXCEPT ![p] = "exited"]
    /\ cause' = [cause EXCEPT ![p] = why]
    /\ alive' = [alive EXCEPT ![p] = FALSE]
    /\ chan' = [chan EXCEPT ![p] = <<>>]
    /\ exitCode' = [exitCode EXCEPT ![p] = <<ExitCode(TRUE)>>]
    /\ listening' = IF p = "L" THEN FALSE ELSE listening
    /\ backlog' = IF p = "L" THEN <<>> ELSE backlog

\* ws_sender.send(frame) is called: the frame starts onto the transport (it
\* is lost if the peer's end is already gone) and the pump awaits the send
StartSend(p, frame) ==
    /\ sent' = [sent EXCEPT ![p] = Append(@, frame)]
    /\ pc' = [pc EXCEPT ![p] = "sending"]
    /\ chan' = IF alive[Peer(p)] THEN [chan EXCEPT ![Peer(p)] = Append(@, frame)]
               ELSE chan

\* select! arm 1, Ok(Some(line)): a line the user typed is ready
PumpLine(p) ==
    /\ pc[p] = "select"
    /\ ~stdinEof[p]
    /\ inputs < MaxInputs
    /\ inputs' = inputs + 1
    /\ \E line \in Lines :
       /\ taken' = [taken EXCEPT ![p] = Append(@, line)]
       /\ IF IsBlank(line)
          THEN UNCHANGED <<pc, sent, chan>>
          ELSE StartSend(p, Text(line))
    /\ UNCHANGED <<trace, exitCode, cause, listening, backlog, accepted, alive,
                   stdinEof, results, recvd, shown>>
    /\ UNCHANGED hs

\* select! arm 1, Ok(None)
PumpEof(p) ==
    /\ pc[p] = "select"
    /\ stdinEof[p]
    /\ Leave(p, "stdin_eof")
    /\ UNCHANGED <<trace, accepted, stdinEof, taken, sent, results, recvd, shown,
                   inputs>>
    /\ UNCHANGED hs

\* select! arm 1, Err(e)
PumpStdinErr(p) ==
    /\ pc[p] = "select"
    /\ Leave(p, "stdin_err")
    /\ UNCHANGED <<trace, accepted, stdinEof, taken, sent, results, recvd, shown,
                   inputs>>
    /\ UNCHANGED hs

\* select! arm 2, Some(Ok(msg))
PumpRecv(p) ==
    /\ pc[p] = "select"
    /\ chan[p] # <<>>
    /\ LET msg == Head(chan[p])
           d == Disposition(msg)
           rest == [chan EXCEPT ![p] = Tail(@)] IN
       /\ recvd' = [recvd EXCEPT ![p] = Append(@, msg)]
       /\ shown' = IF d = "display"
                   THEN [shown EXCEPT ![p] = Append(@, Display(msg.data))]
                   ELSE shown
       /\ CASE d = "close" ->
                 /\ Leave(p, "close")
                 /\ UNCHANGED sent
            [] d = "pong" ->
                 /\ sent' = [sent EXCEPT ![p] = Append(@, Pong(msg.data))]
                 /\ pc' = [pc EXCEPT ![p] = "sending"]
                 /\ chan' = IF alive[Peer(p)]
                            THEN [rest EXCEPT ![Peer(p)] = Append(@, Pong(msg.data))]
                            ELSE rest
                 /\ UNCHANGED <<cause, alive, exitCode, listening, backlog>>
            [] OTHER ->
                 /\ chan' = rest
                 /\ UNCHANGED <<pc, sent, cause, alive, exitCode, listening, backlog>>
    /\ UNCHANGED <<trace, accepted, stdinEof, taken, results, inputs>>
    /\ UNCHANGED hs

\* select! arm 2, Some(Err(e)) or None: the peer's end is gone and nothing is
\* left to read
PumpRecvEnd(p) ==
    /\ pc[p] = "select"
    /\ chan[p] = <<>>
    /\ ~alive[Peer(p)]
    /\ \E why \in {"recv_err", "recv_end"} :
          /\ Leave(p, why)
          /\ recvd' = [recvd EXCEPT ![p] =
                          Append(@, IF why = "recv_err" THEN RecvErr ELSE RecvEnd)]
    /\ UNCHANGED <<trace, accepted, stdinEof, taken, sent, results, shown, inputs>>
    /\ UNCHANGED hs

\* ws_sender.send(..).await returns Ok: the transport has taken the whole
\* frame (or it was written to a socket the peer already left)
SendOk(p) ==
    /\ pc[p] = "sending"
    /\ alive[Peer(p)] => Len(chan[Peer(p)]) <= Cap
    /\ pc' = [pc EXCEPT ![p] = "select"]
    /\ results' = [results EXCEPT ![p] = Append(@, "ok")]
    /\ UNCHANGED <<trace, exitCode, cause, listening, backlog, accepted, alive, chan,
                   stdinEof, taken, sent, recvd, shown, inputs>>
    /\ UNCHANGED hs

\* ws_sender.send(..).await returns Err
SendErr(p) ==
    /\ pc[p] = "sending"
    /\ ~alive[Peer(p)]
    /\ results' = [results EXCEPT ![p] = Append(@, "err")]
    /\ LET kind == sent[p][Len(sent[p])].kind IN
       IF OnSendErr(kind) = "break"
       THEN Leave(p, IF kind = "Text" THEN "send_err" ELSE "pong_err")
       ELSE /\ pc' = [pc EXCEPT ![p] = "select"]
            /\ UNCHANGED <<cause, alive, chan, exitCode, listening, backlog>>
    /\ UNCHANGED <<trace, accepted, stdinEof, taken, sent, recvd, shown, inputs>>
    /\ UNCHANGED hs

Next ==
    \/ \E p \in Procs : SetupStep(p)
    \/ SecondConnect
    \/ \E p \in Procs : StdinClose(p)
    \/ \E p \in Procs : RemoteFrame(p)
    \/ \E p \in Procs : PumpLine(p)
    \/ \E p \in Procs : PumpEof(p)
    \/ \E p \in Procs : PumpStdinErr(p)
    \/ \E p \in Procs : PumpRecv(p)
    \/ \E p \in Procs : PumpRecvEnd(p)
    \/ \E p \in Procs : SendOk(p)
    \/ \E p \in Procs : SendErr(p)

Spec == Init /\ [][Next]_vars

\* The scheduling the runtime gives: an awaited call resumes once its event is
\* there (WF), and select! polls its ready arms in random order, so an arm
\* that is ready again and again is taken (SF).  Nothing obliges the user to
\* type or the remote stack to emit frames.
Fairness ==
    \A p \in Procs :
        /\ WF_vars(SetupStep(p))
        /\ WF_vars(SendOk(p) \/ SendErr(p))
        /\ SF_vars(PumpEof(p))
        /\ SF_vars(PumpRecv(p))
        /\ SF_vars(PumpRecvEnd(p))

FairSpec == Spec /\ Fairness

\* ------------------------------------------------ run_client seen on its own
\* One run of run_client against a server that accepts the connection: any
\* target, any certificate, either protocol version, any signature.
ClientInit ==
    /\ PumpInit
    /\ hs \in [stage : {"parse"}, uri : Uris, cert : Certs, version : TlsVersions,
                dss : Signatures, addr : {<<>>}, certResult : {""}, sigResult : {""}]

\* Url::parse, host_str, port, TcpStream::connect(&addr)
ClientDial ==
    /\ hs.stage = "parse"
    /\ hs' = [hs EXCEPT !.stage = "connected", !.addr = DialAddr(hs.uri)]
    /\ UNCHANGED pumpVars

\* connector.connect(domain, stream): the server's Certificate message
ClientVerifyCert ==
    /\ hs.stage = "connected"
    /\ LET r == VerifyServerCert(hs.cert, <<>>, hs.uri.host, <<>>, "now") IN
       hs' = [hs EXCEPT !.certResult = r,
                        !.stage = IF r = "Ok" THEN "certified" ELSE "failed"]
    /\ UNCHANGED pumpVars

\* the server's handshake signature, TLS 1.2 (ServerKeyExchange)
ClientVerifyTls12 ==
    /\ hs.stage = "certified" /\ hs.version = "1.2"
    /\ LET r == VerifyTls12Signature("transcript", hs.cert, hs.dss) IN
       hs' = [hs EXCEPT !.sigResult = r,
                        !.stage = IF r = "Ok" THEN "secured" ELSE "failed"]
    /\ UNCHANGED pumpVars

\* the server's handshake signature, TLS 1.3 (CertificateVerify)
ClientVerifyTls13 ==
    /\ hs.stage = "certified" /\ hs.version = "1.3"
    /\ LET r == VerifyTls13Signature("transcript", hs.cert, hs.dss) IN
       hs' = [hs EXCEPT !.sigResult = r,
                        !.stage = IF r = "Ok" THEN "secured" ELSE "failed"]
    /\ UNCHANGED pumpVars

ClientNext ==
    \/ ClientDial
    \/ ClientVerifyCert
    \/ ClientVerifyTls12
    \/ ClientVerifyTls13

ClientSpec == ClientInit /\ [][ClientNext]_vars

\* ------------------------------------------------------- claim vocabulary
Last(s) == s[Len(s)]
KindData(log, kind) ==
    LET only == SelectSeq(log, LAMBDA f : f.kind = kind)
    IN  [i \in 1..Len(only) |-> only[i].data]
HasVisibleChar(line) == \E i \in 1..Len(line) : line[i] \notin Whitespace
AllWhitespace(line) == \A i \in 1..Len(line) : line[i] \in Whitespace
Has(log, kind) == \E i \in 1..Len(log) : log[i].kind = kind
Established == \A p \in Procs : PumpEntered(p)

\* C1: the Text frames a pump hands to the sink are, in order and one each,
\* exactly the lines it read that have a visible character; and it reads a line
\* only while no send of its own is still awaited.
C1_TextPerLineInOrder ==
    /\ [](\A p \in Procs : KindData(sent[p], "Text") = SelectSeq(taken[p], HasVisibleChar))
    /\ [][\A p \in Procs : taken'[p] # taken[p] => pc[p] = "select"]_vars

C1_Witness ==
    \E p \in Procs :
        /\ Len(taken[p]) = 2
        /\ taken[p][1] # taken[p][2]
        /\ HasVisibleChar(taken[p][1]) /\ HasVisibleChar(taken[p][2])
        /\ sent[p] = <<Text(taken[p][1]), Text(taken[p][2])>>
        /\ pc[p] = "select"

\* C2: reading an empty or whitespace-only line sends nothing, puts nothing on
\* the transport and leaves the pump Open, waiting in select!.
C2_BlankLineNoFrame ==
    [][\A p \in Procs :
         (taken'[p] # taken[p] /\ AllWhitespace(Last(taken'[p])))
            => (sent' = sent /\ chan' = chan /\ pc'[p] = "select" /\ cause'[p] = "")]_vars

C2_Witness ==
    \E p \in Procs :
        /\ taken[p] = << <<>>, <<" ">> >>
        /\ sent[p] = <<>>
        /\ pc[p] = "select"

\* C3: the Pong frames a pump sends are, in order and one each, the payloads of
\* the Ping frames it received; and when such a send succeeds the pump is back
\* in select!, Open.
C3_PongEchoesPing ==
    /\ [](\A p \in Procs : KindData(sent[p], "Pong") = KindData(recvd[p], "Ping"))
    /\ [][\A p \in Procs :
            (pc[p] = "sending" /\ Last(sent[p]).kind = "Pong" /\ cause'[p] # "pong_err"
                /\ pc'[p] # pc[p])
               => (pc'[p] = "select" /\ cause'[p] = "")]_vars

C3_Witness ==
    \E p \in Procs :
        /\ Has(recvd[p], "Ping")
        /\ sent[p] = <<Pong(Last(recvd[p]).data)>>
        /\ Last(recvd[p]).data # <<>>
        /\ pc[p] = "select"

\* C4: a pump that received a Close frame (with or without code and reason) is
\* Terminated because of it, received nothing after it, and a Terminated pump's
\* cause and list of sent frames never change again; the step that receives the
\* Close sends nothing.
C4_CloseTerminatesOnce ==
    /\ [](\A p \in Procs :
            Has(recvd[p], "Close") =>
                /\ cause[p] = "close" /\ pc[p] = "exited"
                /\ Last(recvd[p]).kind = "Close"
                /\ Len(SelectSeq(recvd[p], LAMBDA f : f.kind = "Close")) = 1)
    /\ [][\A p \in Procs :
            /\ cause[p] # "" => (cause'[p] = cause[p] /\ sent'[p] = sent[p] /\ pc'[p] = pc[p])
            /\ Has(recvd'[p], "Close") => sent'[p] = sent[p]]_vars

C4_Witness ==
    /\ cause["L"] = "close" /\ Last(recvd["L"]) = Close(NoCloseFrame)
    /\ cause["I"] = "close" /\ Last(recvd["I"]) = Close(SomeCloseFrame)

\* C5: once a pump's standard input is closed, the pump is eventually
\* Terminated.
C5_EofLeadsToTerminated ==
    \A p \in Procs : (Open(p) /\ stdinEof[p]) ~> Terminated(p)

\* C6: the two pumps never both wait in a send the transport cannot take (from
\* such a state neither ever services its inbound frames or its local input
\* again: each send ends only when the other pump receives).
C6_NoMutualSendWait ==
    ~(\A p \in Procs :
        pc[p] = "sending" /\ alive[Peer(p)] /\ Len(chan[Peer(p)]) > Cap)

\* C7: in an established session a Text frame on its way to a pump is eventually
\* displayed there with the remote tag (unless that pump has ended first), and
\* once a Close frame is on its way both processes eventually exit with
\* status 0.
C7_EndToEnd ==
    /\ \A p \in Procs : \A line \in Lines :
          (Established /\ Open(p) /\ chan[p] # <<>> /\ Head(chan[p]) = Text(line))
             ~> (Terminated(p) \/ (shown[p] # <<>> /\ Last(shown[p]) = Display(line)))
    /\ (Established /\ \E p \in Procs : Open(p) /\ Has(chan[p], "Close"))
          ~> (\A p \in Procs : exitCode[p] = <<0>>)

\* C8: the listener takes at most one connection with accept() and a process
\* completes at most one TLS and one WebSocket handshake; a later connection
\* attempt is never accepted and its arrival changes nothing of either pump.
C8_SingleAccept ==
    /\ [](/\ Len(accepted) <= 1
          /\ \A i \in 1..Len(accepted) : accepted[i] # "X"
          /\ \A p \in Procs : \A s \in {"tls", "ws"} :
                Cardinality({i \in 1..Len(trace[p]) : trace[p][i] = <<s, TRUE>>}) <= 1)
    /\ [][(Len(backlog') > Len(backlog) /\ Last(backlog') = "X")
            => UNCHANGED <<pc, cause, exitCode, accepted, alive, chan, stdinEof,
                           taken, sent, recvd, shown>>]_vars

C8_Witness ==
    /\ Open("L")
    /\ accepted = <<"I">>
    /\ backlog = <<"X">>
    /\ sent["L"] # <<>>

\* C9: a process that has exited after its pump was entered has status 0,
\* whatever ended the pump; one that exited on a failed setup step has a
\* non-zero status; and a process exits in no other way.
C9_ExitCodes ==
    [] \A p \in Procs :
        /\ (pc[p] = "exited") = (exitCode[p] # Running)
        /\ pc[p] = "exited" =>
             /\ (PumpEntered(p) \/ Terminated(p)) => exitCode[p] = <<0>>
             /\ (trace[p] # <<>> /\ ~Last(trace[p])[2]) => exitCode[p][1] # 0
             /\ Terminated(p) \/ (trace[p] # <<>> /\ ~Last(trace[p])[2])

C9_Witness ==
    \E p \in Procs :
        /\ exitCode[p] = <<0>> /\ cause[p] = "recv_end"
        /\ exitCode[Peer(p)] = <<1>> /\ Last(trace[Peer(p)]) = <<"ws", FALSE>>

\* the setup order the claim states for each role
C10ListenerOrder == <<"cert", "tlscfg", "bind", "accept", "tls", "ws">>
C10InitiatorOrder == <<"uri", "connect", "tls", "ws">>
C10Order == [p \in Procs |-> IF p = "L" THEN C10ListenerOrder ELSE C10InitiatorOrder]
C10Named(p, s) == \E k \in 1..Len(C10Order[p]) : C10Order[p][k] = s
\* the program makes its calls in that order, each once
C10ProgramOrder ==
    \A p \in Procs :
        /\ SelectSeq(Steps(p), LAMBDA s : C10Named(p, s)) = C10Order[p]
        /\ \A i \in 1..Len(Steps(p)) : \A j \in 1..Len(Steps(p)) :
              Steps(p)[i] = Steps(p)[j] => i = j

\* C10: the pump is entered only with every setup step done once, in the
\* stated order, each successfully; a failed step is the last step attempted,
\* the process has exited and its pump was never entered.
C10_AllOrNothing ==
    /\ C10ProgramOrder
    /\ [] \A p \in Procs :
          /\ \A i \in 1..Len(trace[p]) :
                /\ trace[p][i][1] = Steps(p)[i]
                /\ (~trace[p][i][2] /\ trace[p][i][1] \notin {"localip", "globalip"})
                      => (i = Len(trace[p]) /\ pc[p] = "exited" /\ ~PumpEntered(p))
          /\ PumpEntered(p) =>
                /\ Len(trace[p]) = Len(Steps(p))
                /\ \A i \in 1..Len(trace[p]) :
                      trace[p][i][1] \notin {"localip", "globalip"} => trace[p][i][2]

C10_Witness ==
    /\ Open("L") /\ sent["L"] # <<>>
    /\ pc["I"] = "exited" /\ exitCode["I"] = <<1>>
    /\ Last(trace["I"]) = <<"ws", FALSE>>

\* frames of one kind in a log
Count(log, kind) == Len(SelectSeq(log, LAMBDA f : f.kind = kind))
Did(p, s) == \E i \in 1..Len(trace[p]) : trace[p][i] = <<s, TRUE>>
Times(p, s) == Cardinality({i \in 1..Len(trace[p]) : trace[p][i] = <<s, TRUE>>})

\* C12: each process gets its raw connection, its encrypted channel and its
\* framed session at most once; once its pump has ended, whatever ended it, its
\* end of the connection is closed with nothing left on it, and a closed end
\* is never open again.
C12_ReleasedOnce ==
    /\ [](\A p \in Procs :
            /\ Times(p, "connect") + Times(p, "accept") <= 1
            /\ Times(p, "tls") <= 1 /\ Times(p, "ws") <= 1
            /\ alive[p] => (Did(p, "connect") \/ Did(p, "accept"))
            /\ Terminated(p) => (~alive[p] /\ chan[p] = <<>>))
    /\ [][\A p \in Procs :
            ((Did(p, "connect") \/ Did(p, "accept")) /\ ~alive[p]) => ~alive'[p]]_vars

C12_Witness ==
    \E p \in Procs :
        /\ cause[p] = "stdin_eof" /\ cause[Peer(p)] = "send_err"
        /\ ~alive[p] /\ ~alive[Peer(p)]
        /\ chan[p] = <<>> /\ chan[Peer(p)] = <<>>

\* C14: a send that ended in an error is the pump's last send and a receive
\* that returned an error or the end of the stream is its last receive; the
\* pump is then Terminated with that cause, the process has exited with
\* status 0, and a Terminated pump sends nothing.
C14_IoErrorEndsSession ==
    /\ [](\A p \in Procs :
            /\ (\E i \in 1..Len(results[p]) : results[p][i] = "err") =>
                  /\ Last(results[p]) = "err"
                  /\ Len(SelectSeq(results[p], LAMBDA r : r = "err")) = 1
                  /\ Len(results[p]) = Len(sent[p])
                  /\ cause[p] = (IF Last(sent[p]).kind = "Text" THEN "send_err"
                                 ELSE "pong_err")
                  /\ pc[p] = "exited" /\ exitCode[p] = <<0>>
            /\ \A k \in {"Err", "End"} : Has(recvd[p], k) =>
                  /\ Last(recvd[p]).kind = k
                  /\ Count(recvd[p], "Err") + Count(recvd[p], "End") = 1
                  /\ cause[p] = (IF k = "Err" THEN "recv_err" ELSE "recv_end")
                  /\ pc[p] = "exited" /\ exitCode[p] = <<0>>)
    /\ [][\A p \in Procs :
            cause'[p] \in {"send_err", "pong_err", "recv_err", "recv_end"}
               => (Open(p) \/ (cause[p] = cause'[p] /\ sent'[p] = sent[p]))]_vars

C14_Witness ==
    \E p \in Procs :
        /\ cause[p] = "pong_err" /\ Last(results[p]) = "err"
        /\ Last(sent[p]).kind = "Pong"
        /\ exitCode[p] = <<0>>

\* C15 as stated: a pump that has left Open left it for a failed send of a
\* line, the end of local input, a failed Pong send, a Close frame, or a
\* receive error or stream end.
C15_OnlyListedEvents ==
    \A p \in Procs :
        cause[p] \in {"", "send_err", "stdin_eof", "pong_err", "close",
                      "recv_err", "recv_end"}

\* C15 as amended: every step that takes a pump out of Open is one of those
\* events or a read error on local input, and the event is there in the
\* step: the send that failed, the closed input, the frame or result received.
\* No other step (none that passes time) takes it out of Open.
C15_OnlyEventsEndThePump ==
    /\ [](\A p \in Procs : Open(p) => cause[p] = "")
    /\ [][\A p \in Procs :
            (Open(p) /\ ~Open(p)') =>
               \/ /\ cause'[p] \in {"send_err", "pong_err"}
                  /\ pc[p] = "sending"
                  /\ Last(sent[p]).kind = (IF cause'[p] = "send_err" THEN "Text" ELSE "Pong")
                  /\ results'[p] = Append(results[p], "err")
               \/ /\ cause'[p] = "stdin_eof"
                  /\ pc[p] = "select" /\ stdinEof[p]
               \/ /\ cause'[p] = "stdin_err"
                  /\ pc[p] = "select"
               \/ /\ cause'[p] = "close"
                  /\ pc[p] = "select" /\ chan[p] # <<>>
                  /\ Head(chan[p]).kind = "Close"
                  /\ recvd'[p] = Append(recvd[p], Head(chan[p]))
               \/ /\ cause'[p] \in {"recv_err", "recv_end"}
                  /\ pc[p] = "select" /\ chan[p] = <<>>
                  /\ recvd'[p] = Append(recvd[p], IF cause'[p] = "recv_err"
                                                  THEN RecvErr ELSE RecvEnd)]_vars

C15_Witness ==
    \E p \in Procs :
        /\ cause[p] = "stdin_err" /\ taken[p] = <<>> /\ recvd[p] = <<>>
        /\ cause[Peer(p)] = "recv_err"

\* C16: a Terminated pump has returned (its process has exited), and from then
\* on it reads no line, receives and displays nothing, sends nothing, and its
\* cause, position and exit status stay as they are.
C16_TerminatedAbsorbing ==
    /\ [](\A p \in Procs : Terminated(p) => (pc[p] = "exited" /\ exitCode[p] # Running))
    /\ [][\A p \in Procs :
            Terminated(p) =>
               /\ taken'[p] = taken[p] /\ recvd'[p] = recvd[p] /\ shown'[p] = shown[p]
               /\ sent'[p] = sent[p] /\ results'[p] = results[p]
               /\ cause'[p] = cause[p] /\ pc'[p] = pc[p] /\ exitCode'[p] = exitCode[p]
               /\ chan'[p] = <<>>]_vars

C16_Witness ==
    \E p \in Procs :
        /\ cause[p] = "close"
        /\ Open(Peer(p))
        /\ Has(sent[Peer(p)], "Text")
        /\ Len(sent[Peer(p)]) > Count(recvd[p], "Text")

\* C17: what a pump has displayed is, in order and one each, the payloads of
\* the Text frames it received, each under the remote tag; and the step that
\* receives a frame that is neither Ping nor Close sends nothing, leaves the
\* pump in select!, Open, and displays only if the frame is a Text.
C17_TextShownOthersIgnored ==
    /\ [](\A p \in Procs :
            /\ Len(shown[p]) = Count(recvd[p], "Text")
            /\ \A i \in 1..Len(shown[p]) :
                  /\ shown[p][i].tag = "remote"
                  /\ shown[p][i].text = KindData(recvd[p], "Text")[i])
    /\ [][\A p \in Procs :
            (Len(recvd'[p]) > Len(recvd[p])
                /\ Last(recvd'[p]).kind \notin {"Ping", "Close", "Err", "End"})
               => /\ sent' = sent /\ pc'[p] = "select" /\ cause'[p] = ""
                  /\ chan'[Peer(p)] = chan[Peer(p)]
                  /\ Last(recvd'[p]).kind # "Text" => shown' = shown]_vars

C17_Witness ==
    \E p \in Procs :
        /\ Open(p)
        /\ recvd[p] = <<Text(<<" ", "b", " ">>), Binary(<<"p">>)>>
        /\ shown[p] = <<Display(<<" ", "b", " ">>)>>
        /\ sent[p] = <<>>

\* C19: every frame a pump hands to the sink is a Text or a Pong; it has sent
\* no more Text frames than it read lines with a visible character and no more
\* Pong frames than it received Ping frames; in particular it never sends a
\* Close, whatever ended it.
C19_OnlyTextAndPong ==
    [] \A p \in Procs :
        /\ \A i \in 1..Len(sent[p]) : sent[p][i].kind \in {"Text", "Pong"}
        /\ Count(sent[p], "Text") <= Len(SelectSeq(taken[p], HasVisibleChar))
        /\ Count(sent[p], "Pong") <= Count(recvd[p], "Ping")
        /\ Count(sent[p], "Close") = 0
        /\ \A i \in 1..Len(recvd[Peer(p)]) :
              recvd[Peer(p)][i].kind = "Text" => Has(sent[p], "Text")

C19_Witness ==
    \E p \in Procs :
        /\ cause[p] = "stdin_eof"
        /\ Has(sent[p], "Text") /\ Has(sent[p], "Pong")

\* C20: the payload of every Text frame (in the sender's log, on the transport,
\* received or displayed by the peer) is, character for character, a line its
\* sender read; a line with leading or trailing whitespace goes out with it.
C20_PayloadIsLineAsRead ==
    [] \A p \in Procs :
        LET isLine(d) == \E i \in 1..Len(taken[p]) : taken[p][i] = d
            asRead(log) == \A i \in 1..Len(log) : log[i].kind = "Text" => isLine(log[i].data)
        IN  /\ asRead(sent[p])
            /\ asRead(chan[Peer(p)])
            /\ asRead(recvd[Peer(p)])
            /\ \A i \in 1..Len(shown[Peer(p)]) : isLine(shown[Peer(p)][i].text)

C20_Witness ==
    \E p \in Procs :
        /\ taken[p] = << <<" ", "b", " ">> >>
        /\ shown[Peer(p)] = <<Display(<<" ", "b", " ">>)>>

\* C18: a failed get_local_ip or a get_global_ip whose every service failed
\* ends nothing: the listener is still running (or has exited on a later
\* step), its next steps are certificate generation, bind and accept as after
\* a success, and whenever the listener has exited with an error the step that
\* failed is not an address look-up.
C18_DiscoveryNeverGates ==
    LET t == trace["L"]
        failedLookup == \E i \in 1..Len(t) : t[i][1] \in {"localip", "globalip"} /\ ~t[i][2]
    IN  /\ failedLookup =>
              /\ \A i \in 1..Len(t) : t[i][1] = ListenerSteps[i]
              /\ \A i \in 1..Len(t) :
                    (t[i][1] \in {"localip", "globalip"} /\ i = Len(t)) => pc["L"] = "setup"
        /\ (pc["L"] = "exited" /\ exitCode["L"] # <<0>>) =>
              (~Last(t)[2] /\ Last(t)[1] \notin {"localip", "globalip"})
        /\ \A i \in 1..Len(t) :
              (t[i][1] = "globalip") => (t[i][2] \in GlobalIpResults)

C18_Witness ==
    /\ Len(trace["L"]) = Len(ListenerSteps)
    /\ trace["L"][2] = <<"localip", FALSE>>
    /\ trace["L"][3] = <<"globalip", FALSE>>
    /\ Did("L", "cert") /\ Did("L", "bind") /\ Did("L", "accept")
    /\ Open("L") /\ Open("I")
    /\ shown["L"] # <<>>

\* C11: the verifier answers Ok to every certificate (any validity, any
\* subject, any server name) and to every TLS 1.2 and TLS 1.3 handshake
\* signature, and no handshake of run_client fails at the certificate or at
\* the signature.
C11_VerifierAcceptsAll ==
    /\ \A c \in Certs : \A h \in Hosts :
          VerifyServerCert(c, <<>>, h, <<>>, "now") = "Ok"
    /\ \A c \in Certs : \A d \in Signatures :
          /\ VerifyTls12Signature("transcript", c, d) = "Ok"
          /\ VerifyTls13Signature("transcript", c, d) = "Ok"
    /\ hs.stage # "failed"
    /\ hs.stage \in {"certified", "secured"} => hs.certResult = "Ok"
    /\ hs.stage = "secured" => hs.sigResult = "Ok"

C11_Witness ==
    /\ hs.stage = "secured"
    /\ hs.cert.validity = "expired"
    /\ hs.cert.subject # hs.uri.host
    /\ ~hs.dss.genuine

\* C13: once run_client has connected, the port it dialled is the port written
\* in the URI if one is written, and 8080 only if none is.
C13_DialsWrittenPort ==
    hs.stage \in {"connected", "certified", "secured"} =>
        /\ hs.addr[1] = hs.uri.host
        /\ hs.uri.port # None => hs.addr[2] = hs.uri.port[1]
        /\ hs.uri.port = None => hs.addr[2] = FallbackPort

====
